---- MODULE Spec2Model ----
(***************************************************************************)
(* Support/resistance zone detection (zone_detector.py) and the part of   *)
(* the chat handler (bot.py) that pools zones and labels their timeframe. *)
(*                                                                         *)
(* Prices are integers (ticks).  Bar indices are the 0-based indices of   *)
(* the Python lists; a bar list is a sequence whose element i+1 is        *)
(* candles[i].                                                             *)
(***************************************************************************)
EXTENDS Integers, Sequences, FiniteSets

VARIABLES
    pc,              \* position of the run being modelled
    \* detection run
    candles,         \* the bar list handed to _find_pivots / detect_zones
    pivots,          \* result of _find_pivots(candles)
    zones,           \* result of detect_zones(candles)
    \* merge run
    mz_in,           \* the caller's zone list: its Zone objects as they are now
    mz_given,        \* the zones of that list as they were when _merge_zones was called
    obj_pos,         \* for each zone of the list in hand, the place of that object in mz_in
    mz_out,          \* the list _merge_zones returned: objects of mz_in
    mz_again,        \* _merge_zones(mz_out)
    mz_by_kind,      \* _merge_zones of the support / resistance zones of mz_given alone
    \* selection run and chat handler
    pool,            \* the zone list handed to get_nearest_zones
    current_price,
    max_resistance,
    max_support,
    nearest,         \* result of get_nearest_zones
    candles_by_tf,   \* the bars handed to a direct call of detect_zones_multi_tf
    handlers,        \* the locals of each running analyze_handler and the await it is at
    zones_by_tf,     \* result of detect_zones_multi_tf
    labels,          \* the TF label _get_zone_tf gave for each zone of nearest
    \* single calls and the loops of detect_zones and _merge_zones, step by step
    init_pivot,      \* the pivot handed to _init_zone_from_pivot
    init_zone,       \* _init_zone_from_pivot(init_pivot, candles): the loop's `zone`
    refined_zone,    \* _refine_zone(init_zone, candles)
    pivot_pos,       \* position of detect_zones' pivot loop in the pivot list
    steps,           \* log of the calls detect_zones made, in the order it made them
    loop_zones,      \* the local `zones` of _merge_zones at the head of its while loop
    merged_flag,     \* the local `merged` of _merge_zones
    pass_lens        \* len(zones) on entry to each pass of the while loop

detect_vars == <<candles, pivots, zones>>
merge_vars == <<mz_in, mz_given, obj_pos, mz_out, mz_again, mz_by_kind>>
select_vars == <<pool, current_price, max_resistance, max_support, nearest>>
bot_vars == <<candles_by_tf, handlers, zones_by_tf, labels>>
call_vars == <<init_pivot, init_zone, refined_zone>>
loop_vars == <<pivot_pos, steps, loop_zones, merged_flag, pass_lens>>
step_vars == <<call_vars, loop_vars>>

vars == <<pc, detect_vars, merge_vars, select_vars, bot_vars, step_vars>>

-----------------------------------------------------------------------------
(* Bounds and input alphabets *)

MaxBars == 8

\* The bars a series is built from: open, high, low, close in ticks.
BarO == [open |-> 5, high |-> 9,  low |-> 2, close |-> 6]    \* outside bar, long wicks
BarT == [open |-> 3, high |-> 8,  low |-> 3, close |-> 7]    \* wide body, no lower wick
BarX == [open |-> 6, high |-> 11, low |-> 5, close |-> 10]   \* closes above 9
BarY == [open |-> 4, high |-> 5,  low |-> 0, close |-> 1]    \* closes below 2

BarShapes == { BarO, BarT, BarX, BarY }

\* open_time of the bar at 0-based index i: strictly ascending, one bar per hour.
OpenTimeAt(i) == 1000 + 60 * i

-----------------------------------------------------------------------------
(* Helpers *)

Max2(a, b) == IF a >= b THEN a ELSE b
Min2(a, b) == IF a <= b THEN a ELSE b

\* candles[i] with Python's 0-based index
At(cs, i) == cs[i + 1]

\* candles[k:]  (0-based k)
From(cs, k) == IF k >= Len(cs) THEN <<>> ELSE SubSeq(cs, k + 1, Len(cs))

None == [type |-> "None"]

-----------------------------------------------------------------------------
(* Zone dataclass *)

Zone(type, zone_low, zone_high, origin_time, pivot_idx) ==
    [ type        |-> type,
      zone_low    |-> zone_low,
      zone_high   |-> zone_high,
      origin_time |-> origin_time,
      strength    |-> 1,
      touches     |-> 0,
      status      |-> "active",
      pivot_idx   |-> pivot_idx ]

-----------------------------------------------------------------------------
(* _find_pivots *)

\* variant: a tie with the next bar still qualifies
is_ph_tie_on_right(cs, i) ==
    /\ At(cs, i).high > At(cs, i - 1).high
    /\ At(cs, i).high > At(cs, i - 2).high
    /\ At(cs, i).high >= At(cs, i + 1).high
    /\ At(cs, i).high > At(cs, i + 2).high

is_ph(cs, i) ==
    /\ At(cs, i).high > At(cs, i - 1).high
    /\ At(cs, i).high > At(cs, i - 2).high
    /\ At(cs, i).high > At(cs, i + 1).high
    /\ At(cs, i).high > At(cs, i + 2).high

is_pl(cs, i) ==
    /\ At(cs, i).low < At(cs, i - 1).low
    /\ At(cs, i).low < At(cs, i - 2).low
    /\ At(cs, i).low < At(cs, i + 1).low
    /\ At(cs, i).low < At(cs, i + 2).low

RECURSIVE PivotsFrom(_, _)
\* the loop `for i in range(2, n - 2)` from index i on
PivotsFrom(cs, i) ==
    IF i >= Len(cs) - 2 THEN <<>>
    ELSE (IF is_ph(cs, i)
            THEN << [idx |-> i, type |-> "high", candle |-> At(cs, i)] >>
            ELSE <<>>)
         \o (IF is_pl(cs, i)
            THEN << [idx |-> i, type |-> "low", candle |-> At(cs, i)] >>
            ELSE <<>>)
         \o PivotsFrom(cs, i + 1)

_find_pivots(cs) == PivotsFrom(cs, 2)

-----------------------------------------------------------------------------
(* _init_zone_from_pivot *)

_get_body_high(c) == Max2(c.open, c.close)
_get_body_low(c) == Min2(c.open, c.close)

\* variant: only the bars before the pivot are looked at
NeighborIdx_left_only(idx) == << idx - 1, idx - 2, idx - 1, idx - 2 >>

\* [idx - 1, idx - 2, idx + 1, idx + 2]
NeighborIdx(idx) == << idx - 1, idx - 2, idx + 1, idx + 2 >>

RECURSIVE RaiseLow(_, _, _, _, _)
\* resistance: the neighbour loop from position k of NeighborIdx on
RaiseLow(cs, idx, k, zone_low, zone_high) ==
    IF k > 4 THEN zone_low
    ELSE LET nbi == NeighborIdx(idx)[k] IN
         IF 0 <= nbi /\ nbi < Len(cs)
           THEN LET nb_body_high == _get_body_high(At(cs, nbi)) IN
                IF nb_body_high > zone_low /\ nb_body_high < zone_high
                  THEN RaiseLow(cs, idx, k + 1, Max2(zone_low, nb_body_high), zone_high)
                  ELSE RaiseLow(cs, idx, k + 1, zone_low, zone_high)
           ELSE RaiseLow(cs, idx, k + 1, zone_low, zone_high)

RECURSIVE LowerHigh(_, _, _, _, _)
\* support: the neighbour loop from position k of NeighborIdx on
LowerHigh(cs, idx, k, zone_low, zone_high) ==
    IF k > 4 THEN zone_high
    ELSE LET nbi == NeighborIdx(idx)[k] IN
         IF 0 <= nbi /\ nbi < Len(cs)
           THEN LET nb_body_low == _get_body_low(At(cs, nbi)) IN
                IF nb_body_low < zone_high /\ nb_body_low > zone_low
                  THEN LowerHigh(cs, idx, k + 1, zone_low, Min2(zone_high, nb_body_low))
                  ELSE LowerHigh(cs, idx, k + 1, zone_low, zone_high)
           ELSE LowerHigh(cs, idx, k + 1, zone_low, zone_high)

_init_zone_from_pivot(pivot, cs) ==
    LET idx == pivot.idx
        c   == pivot.candle
    IN IF pivot.type = "high"
         THEN LET zone_high == c.high
                  zone_low0 == _get_body_high(c)
              IN IF zone_low0 >= zone_high THEN None
                 ELSE LET zone_low == RaiseLow(cs, idx, 1, zone_low0, zone_high)
                      IN IF zone_low >= zone_high THEN None
                         ELSE Zone("resistance", zone_low, zone_high, c.open_time, idx)
         ELSE LET zone_low   == c.low
                  zone_high0 == _get_body_low(c)
              IN IF zone_high0 <= zone_low THEN None
                 ELSE LET zone_high == LowerHigh(cs, idx, 1, zone_low, zone_high0)
                      IN IF zone_high <= zone_low THEN None
                         ELSE Zone("support", zone_low, zone_high, c.open_time, idx)

-----------------------------------------------------------------------------
(* _refine_zone *)

RECURSIVE MinCloseWalk_no_wick_stop(_, _, _, _)
\* variant: a lower low does not stop the walk
MinCloseWalk_no_wick_stop(zone, cs, i, min_close) ==
    IF i >= Len(cs) THEN min_close
    ELSE IF At(cs, i).close < zone.zone_low THEN min_close
    ELSE MinCloseWalk_no_wick_stop(zone, cs, i + 1, Min2(min_close, At(cs, i).close))

RECURSIVE MinCloseWalk(_, _, _, _)
\* support: `for i in range(pivot_idx, n)` from index i on, with its two breaks
MinCloseWalk(zone, cs, i, min_close) ==
    IF i >= Len(cs) THEN min_close
    ELSE IF At(cs, i).low < zone.zone_low THEN min_close
    ELSE IF At(cs, i).close < zone.zone_low THEN min_close
    ELSE MinCloseWalk(zone, cs, i + 1, Min2(min_close, At(cs, i).close))

RECURSIVE MaxCloseWalk(_, _, _, _)
\* resistance: `for i in range(pivot_idx, n)` from index i on, with its two breaks
MaxCloseWalk(zone, cs, i, max_close) ==
    IF i >= Len(cs) THEN max_close
    ELSE IF At(cs, i).high > zone.zone_high THEN max_close
    ELSE IF At(cs, i).close > zone.zone_high THEN max_close
    ELSE MaxCloseWalk(zone, cs, i + 1, Max2(max_close, At(cs, i).close))

\* variant: the refined bound is applied without comparing it with the outer bound
_refine_zone_unguarded(zone, cs) ==
    IF zone.type = "support"
      THEN [zone EXCEPT !.zone_high = MinCloseWalk(zone, cs, zone.pivot_idx, zone.zone_high)]
      ELSE [zone EXCEPT !.zone_low = MaxCloseWalk(zone, cs, zone.pivot_idx, zone.zone_low)]

_refine_zone(zone, cs) ==
    IF zone.type = "support"
      THEN LET refined_high == MinCloseWalk(zone, cs, zone.pivot_idx, zone.zone_high)
           IN IF refined_high > zone.zone_low
                THEN [zone EXCEPT !.zone_high = refined_high]
                ELSE zone
      ELSE LET refined_low == MaxCloseWalk(zone, cs, zone.pivot_idx, zone.zone_low)
           IN IF refined_low < zone.zone_high
                THEN [zone EXCEPT !.zone_low = refined_low]
                ELSE zone

-----------------------------------------------------------------------------
(* _is_broken *)

\* variant: the support branch is missing
_is_broken_resistance_only(zone, cs) ==
    \E k \in 1..Len(From(cs, zone.pivot_idx)) :
        zone.type = "resistance" /\ From(cs, zone.pivot_idx)[k].close > zone.zone_high

_is_broken(zone, cs) ==
    \E k \in 1..Len(From(cs, zone.pivot_idx)) :
        LET c == From(cs, zone.pivot_idx)[k] IN
        \/ zone.type = "resistance" /\ c.close > zone.zone_high
        \/ zone.type = "support" /\ c.close < zone.zone_low

-----------------------------------------------------------------------------
(* _merge_zones *)

\* threshold_pct = 0.005 as the fraction ThresholdNum / ThresholdDen
ThresholdNum == 5
ThresholdDen == 1000

\* variant: the kind check is missing
SameType_unchecked(z1, z2) == TRUE

\* the negation of `if z1.type != z2.type: continue`
SameType(z1, z2) == z1.type = z2.type

\* overlap = z1.zone_low <= z2.zone_high and z2.zone_low <= z1.zone_high
overlap(z1, z2) == z1.zone_low <= z2.zone_high /\ z2.zone_low <= z1.zone_high

\* gap = max(z1.zone_low, z2.zone_low) - min(z1.zone_high, z2.zone_high)
gap(z1, z2) == Max2(z1.zone_low, z2.zone_low) - Min2(z1.zone_high, z2.zone_high)

\* close_enough = gap < threshold, with
\* threshold = (z1.zone_high - z1.zone_low + z2.zone_high - z2.zone_low) / 2 * threshold_pct
\* cleared of its denominators
close_enough(z1, z2) ==
    gap(z1, z2) * 2 * ThresholdDen
        < (z1.zone_high - z1.zone_low + z2.zone_high - z2.zone_low) * ThresholdNum

\* variant: the absorbed zone's strength is not added
AfterMerge_strength_kept(z1, z2) ==
    IF z1.origin_time <= z2.origin_time
      THEN [z1 EXCEPT !.zone_low  = Min2(z1.zone_low, z2.zone_low),
                      !.zone_high = Max2(z1.zone_high, z2.zone_high),
                      !.pivot_idx = Min2(z1.pivot_idx, z2.pivot_idx)]
      ELSE z1

\* The object bound to z1 after the body of `if overlap or close_enough:`.
\* When z1 is the base it carries the union; when z2 is the base the union is
\* written to z2 and z1 is untouched.
AfterMerge(z1, z2) ==
    IF z1.origin_time <= z2.origin_time
      THEN [z1 EXCEPT !.zone_low  = Min2(z1.zone_low, z2.zone_low),
                      !.zone_high = Max2(z1.zone_high, z2.zone_high),
                      !.strength  = z1.strength + z2.strength,
                      !.pivot_idx = Min2(z1.pivot_idx, z2.pivot_idx)]
      ELSE z1

\* The object bound to z2 after the same body: untouched when z1 is the base,
\* carrying the union when z2 is the base.  Either way it is marked used.
AbsorbedAfterMerge(z1, z2) ==
    IF z1.origin_time <= z2.origin_time
      THEN z2
      ELSE [z2 EXCEPT !.zone_low  = Min2(z1.zone_low, z2.zone_low),
                      !.zone_high = Max2(z1.zone_high, z2.zone_high),
                      !.strength  = z2.strength + z1.strength,
                      !.pivot_idx = Min2(z1.pivot_idx, z2.pivot_idx)]

RECURSIVE InnerLoop(_, _, _, _, _)
\* `for j in range(i + 1, len(zones))` from index j on, for z1 = zones[i].
\* zs holds the Zone objects of `zones` as they are now: a merge writes into them.
InnerLoop(zs, i, used, j, merged) ==
    IF j >= Len(zs) THEN [zs |-> zs, used |-> used, merged |-> merged]
    ELSE IF j \in used THEN InnerLoop(zs, i, used, j + 1, merged)
    ELSE LET z1 == At(zs, i)
             z2 == At(zs, j)
         IN IF ~SameType(z1, z2) THEN InnerLoop(zs, i, used, j + 1, merged)
            ELSE IF overlap(z1, z2) \/ close_enough(z1, z2)
              THEN InnerLoop([zs EXCEPT ![i + 1] = AfterMerge(z1, z2),
                                        ![j + 1] = AbsorbedAfterMerge(z1, z2)],
                             i, used \cup {j}, j + 1, TRUE)
              ELSE InnerLoop(zs, i, used, j + 1, merged)

RECURSIVE OuterLoop(_, _, _, _, _)
\* `for i in range(len(zones))` from index i on: one pass of the while loop.
\* kept lists the indices whose object was appended to `result`.
OuterLoop(zs, i, used, kept, merged) ==
    IF i >= Len(zs)
      THEN [zones   |-> [k \in 1..Len(kept) |-> At(zs, kept[k])],
            merged  |-> merged,
            objects |-> zs,
            kept    |-> kept]
    ELSE IF i \in used THEN OuterLoop(zs, i + 1, used, kept, merged)
    ELSE LET r == InnerLoop(zs, i, used, i + 1, merged) IN
         OuterLoop(r.zs, i + 1, r.used, Append(kept, i), r.merged)

\* variant: `merged = False` at the head of the pass is missing, so the flag
\* is still True from the loop entry
MergePass_merged_not_reset(zs) ==
    [OuterLoop(zs, 0, {}, <<>>, FALSE) EXCEPT !.merged = TRUE]

MergePass(zs) == OuterLoop(zs, 0, {}, <<>>, FALSE)

\* the caller's objects objs after the objects at the places pos became new
WriteBack(objs, pos, new) ==
    [n \in 1..Len(objs) |->
        IF \E k \in 1..Len(pos) : pos[k] = n
          THEN new[CHOOSE k \in 1..Len(pos) : pos[k] = n]
          ELSE objs[n]]

\* the places of the objects a pass appended to `result`
KeptPlaces(pos, kept) == [k \in 1..Len(kept) |-> pos[kept[k] + 1]]

RECURSIVE MergeWhile(_, _)
\* `while merged:` entered with `zones` holding the objects of objs at the
\* places pos; `zones = result` hands the kept objects to the next pass
MergeWhile(objs, pos) ==
    LET p == MergePass([k \in 1..Len(pos) |-> objs[pos[k]]]) IN
    IF p.merged
      THEN MergeWhile(WriteBack(objs, pos, p.objects), KeptPlaces(pos, p.kept))
      ELSE [zones   |-> p.zones,
            objects |-> WriteBack(objs, pos, p.objects),
            pos     |-> KeptPlaces(pos, p.kept)]

\* the places 1..Len(zs): `zones` is the caller's list itself
OwnPlaces(zs) == [k \in 1..Len(zs) |-> k]

\* variant: one pass instead of passes until nothing merges
_merge_zones_single_pass(zs) == IF zs = <<>> THEN zs ELSE MergePass(zs).zones

_merge_zones(zs) == IF zs = <<>> THEN zs ELSE MergeWhile(zs, OwnPlaces(zs)).zones

\* the Zone objects of the list handed to _merge_zones as the call leaves them
LeftBehind(zs) == IF zs = <<>> THEN zs ELSE MergeWhile(zs, OwnPlaces(zs)).objects

\* the places in the list handed to _merge_zones of the objects it returns
ReturnedPlaces(zs) == IF zs = <<>> THEN <<>> ELSE MergeWhile(zs, OwnPlaces(zs)).pos

-----------------------------------------------------------------------------
(* detect_zones *)

RECURSIVE CandidateLoop(_, _, _)
\* `for pivot in pivots:` from position k of the pivot list on
CandidateLoop(ps, cs, k) ==
    IF k > Len(ps) THEN <<>>
    ELSE LET zone == _init_zone_from_pivot(ps[k], cs) IN
         IF zone = None THEN CandidateLoop(ps, cs, k + 1)
         ELSE IF _is_broken(zone, cs) THEN CandidateLoop(ps, cs, k + 1)
         ELSE << _refine_zone(zone, cs) >> \o CandidateLoop(ps, cs, k + 1)

IsValidZone(z) == z.zone_low < z.zone_high /\ z.status = "active"

\* variant of the pivot loop that flags a broken candidate instead of skipping it
RECURSIVE FlaggingLoop(_, _, _)
FlaggingLoop(ps, cs, k) ==
    IF k > Len(ps) THEN <<>>
    ELSE LET zone == _init_zone_from_pivot(ps[k], cs) IN
         IF zone = None THEN FlaggingLoop(ps, cs, k + 1)
         ELSE IF _is_broken(zone, cs)
           THEN << [zone EXCEPT !.status = "broken"] >> \o FlaggingLoop(ps, cs, k + 1)
           ELSE << _refine_zone(zone, cs) >> \o FlaggingLoop(ps, cs, k + 1)

\* variant: a broken candidate is flagged instead of skipped and the merged
\* list is returned without the final validity pass
detect_zones_flag_broken(cs) ==
    IF Len(cs) < 5 THEN <<>>
    ELSE _merge_zones(FlaggingLoop(_find_pivots(cs), cs, 1))

detect_zones(cs) ==
    IF Len(cs) < 5 THEN <<>>
    ELSE SelectSeq(_merge_zones(CandidateLoop(_find_pivots(cs), cs, 1)), IsValidZone)

-----------------------------------------------------------------------------
(* get_nearest_zones *)

\* the two branches that append to `resistance`
IsResistanceCandidate(z, price) ==
    \/ z.type = "resistance" /\ z.zone_low > price
    \/ z.type = "resistance" /\ z.zone_high > price /\ price > z.zone_low

\* the two branches that append to `support`
IsSupportCandidate(z, price) ==
    \/ z.type = "support" /\ z.zone_high < price
    \/ z.type = "support" /\ z.zone_low < price /\ price < z.zone_high

RECURSIVE InsertByLow(_, _)
\* z placed behind every element whose zone_low is <= its own
InsertByLow(sorted, z) ==
    IF sorted = <<>> THEN << z >>
    ELSE IF Head(sorted).zone_low <= z.zone_low
      THEN << Head(sorted) >> \o InsertByLow(Tail(sorted), z)
      ELSE << z >> \o sorted

RECURSIVE InsertByHighDesc(_, _)
\* z placed behind every element whose zone_high is >= its own
InsertByHighDesc(sorted, z) ==
    IF sorted = <<>> THEN << z >>
    ELSE IF Head(sorted).zone_high >= z.zone_high
      THEN << Head(sorted) >> \o InsertByHighDesc(Tail(sorted), z)
      ELSE << z >> \o sorted

RECURSIVE SortByLowFrom(_, _, _)
SortByLowFrom(zs, k, sorted) ==
    IF k > Len(zs) THEN sorted
    ELSE SortByLowFrom(zs, k + 1, InsertByLow(sorted, zs[k]))

RECURSIVE SortByHighDescFrom(_, _, _)
SortByHighDescFrom(zs, k, sorted) ==
    IF k > Len(zs) THEN sorted
    ELSE SortByHighDescFrom(zs, k + 1, InsertByHighDesc(sorted, zs[k]))

\* support.sort(key=lambda z: z.zone_high, reverse=True): stable, descending
SortByHighDesc(zs) == SortByHighDescFrom(zs, 1, <<>>)

\* variant: reverse=True copied from the support sort
SortByLow_reversed(zs) ==
    LET RECURSIVE Ins(_, _)
        Ins(sorted, z) ==
            IF sorted = <<>> THEN << z >>
            ELSE IF Head(sorted).zone_low >= z.zone_low
              THEN << Head(sorted) >> \o Ins(Tail(sorted), z)
              ELSE << z >> \o sorted
        RECURSIVE Go(_, _)
        Go(k, sorted) == IF k > Len(zs) THEN sorted ELSE Go(k + 1, Ins(sorted, zs[k]))
    IN Go(1, <<>>)

\* resistance.sort(key=lambda z: z.zone_low): stable, ascending
SortByLow(zs) == SortByLowFrom(zs, 1, <<>>)

\* lst[:cap] for cap >= 0
Prefix(lst, cap) == SubSeq(lst, 1, Min2(cap, Len(lst)))

get_nearest_zones(zs, price, max_res, max_sup) ==
    LET resistance == SelectSeq(zs, LAMBDA z : IsResistanceCandidate(z, price))
        support    == SelectSeq(zs, LAMBDA z : IsSupportCandidate(z, price))
    IN [ resistance |-> Prefix(SortByLow(resistance), max_res),
         support    |-> Prefix(SortByHighDesc(support), max_sup) ]

-----------------------------------------------------------------------------
(* detect_zones_multi_tf and the handler's timeframe lookup *)

\* TIMEFRAME_MAP, in insertion order
TFOrder == << "1h", "4h", "12h" >>
TFs == { TFOrder[k] : k \in 1..Len(TFOrder) }

\* what fetch_candles returns: None, or a bar list
NoCandles == [fetched |-> FALSE, bars |-> <<>>]
Fetched(bars) == [fetched |-> TRUE, bars |-> bars]

\* truth value of `candles` in `if candles:` / `if not main_candles:`
Truthy(c) == c.fetched /\ c.bars # <<>>

TFIndex(tf) == CHOOSE k \in 1..Len(TFOrder) : TFOrder[k] = tf

\* id() of the k-th Zone object detect_zones built for timeframe tf within
\* one call of detect_zones_multi_tf: different for different (tf, k),
\* however many zones a timeframe has
ObjectId(tf, k) == Len(TFOrder) * (k - 1) + TFIndex(tf)

\* The Zone objects of one timeframe.  id is the object's identity;
\* made_from records the timeframe whose bars produced it and is not a
\* field of the dataclass: nothing that models the code reads it.
Objects(tf, zs) ==
    [ k \in 1..Len(zs) |->
        [ type |-> zs[k].type, zone_low |-> zs[k].zone_low, zone_high |-> zs[k].zone_high,
          origin_time |-> zs[k].origin_time, strength |-> zs[k].strength,
          touches |-> zs[k].touches, status |-> zs[k].status, pivot_idx |-> zs[k].pivot_idx,
          id |-> ObjectId(tf, k), made_from |-> tf ] ]

\* variant: a timeframe without bars gets no key
detect_zones_multi_tf_skip_empty(cbt) ==
    [ tf \in { t \in DOMAIN cbt : Truthy(cbt[t]) } |->
        Objects(tf, detect_zones(cbt[tf].bars)) ]

detect_zones_multi_tf(cbt) ==
    [ tf \in DOMAIN cbt |->
        IF Truthy(cbt[tf]) THEN Objects(tf, detect_zones(cbt[tf].bars)) ELSE <<>> ]

RECURSIVE LookupFrom(_, _, _)
\* `for tf, zones in zones_by_tf.items()` from position k of the key order on
LookupFrom(zone, zbt, k) ==
    IF k > Len(TFOrder) THEN "?"
    ELSE IF /\ TFOrder[k] \in DOMAIN zbt
            /\ \E j \in 1..Len(zbt[TFOrder[k]]) : zbt[TFOrder[k]][j].id = zone.id
      THEN TFOrder[k]
      ELSE LookupFrom(zone, zbt, k + 1)

_get_zone_tf(zone, zbt) == LookupFrom(zone, zbt, 1)

RECURSIVE AllZonesFrom(_, _)
\* all_zones.extend(tf_zones) over zones_by_tf.values()
AllZonesFrom(zbt, k) ==
    IF k > Len(TFOrder) THEN <<>>
    ELSE (IF TFOrder[k] \in DOMAIN zbt THEN zbt[TFOrder[k]] ELSE <<>>)
         \o AllZonesFrom(zbt, k + 1)

\* get_nearest_zones defaults
DefaultMaxResistance == 3
DefaultMaxSupport == 4

LabelsOf(shown, zbt) ==
    [ resistance |-> [ k \in 1..Len(shown.resistance) |->
                         _get_zone_tf(shown.resistance[k], zbt) ],
      support    |-> [ k \in 1..Len(shown.support) |->
                         _get_zone_tf(shown.support[k], zbt) ] ]

-----------------------------------------------------------------------------
(* The detection run: a series is built bar by bar, then handed to            *)
(* _find_pivots or to detect_zones.                                           *)

NoRecord == [resistance |-> <<>>, support |-> <<>>]

DetectIdle == candles = <<>> /\ pivots = <<>> /\ zones = <<>>

MergeIdle ==
    /\ mz_in = <<>>
    /\ mz_given = <<>>
    /\ obj_pos = <<>>
    /\ mz_out = <<>>
    /\ mz_again = <<>>
    /\ mz_by_kind = NoRecord

SelectIdle ==
    /\ pool = <<>>
    /\ current_price = 0
    /\ max_resistance = 0
    /\ max_support = 0
    /\ nearest = NoRecord

BotIdle ==
    /\ candles_by_tf = <<>>
    /\ handlers = <<>>
    /\ zones_by_tf = <<>>
    /\ labels = NoRecord

StepIdle ==
    /\ init_pivot = None
    /\ init_zone = None
    /\ refined_zone = None
    /\ pivot_pos = 0
    /\ steps = <<>>
    /\ loop_zones = <<>>
    /\ merged_flag = FALSE
    /\ pass_lens = <<>>

Init ==
    /\ pc = "build"
    /\ DetectIdle
    /\ MergeIdle
    /\ StepIdle
    /\ SelectIdle
    /\ BotIdle

AppendBar ==
    /\ pc = "build"
    /\ Len(candles) < MaxBars
    /\ \E b \in BarShapes :
         candles' = Append(candles,
                           [open_time |-> OpenTimeAt(Len(candles)),
                            open |-> b.open, high |-> b.high,
                            low |-> b.low, close |-> b.close])
    /\ UNCHANGED <<step_vars, pc, pivots, zones, merge_vars, select_vars, bot_vars>>

CallFindPivots ==
    /\ pc = "build"
    /\ pivots' = _find_pivots(candles)
    /\ pc' = "pivots"
    /\ UNCHANGED <<step_vars, candles, zones, merge_vars, select_vars, bot_vars>>

CallDetectZones ==
    /\ pc = "build"
    /\ zones' = detect_zones(candles)
    /\ pc' = "zones"
    /\ UNCHANGED <<step_vars, candles, pivots, merge_vars, select_vars, bot_vars>>

Next == AppendBar \/ CallFindPivots \/ CallDetectZones

Spec == Init /\ [][Next]_vars

-----------------------------------------------------------------------------
(* Properties of the detection run *)

NBars == Len(candles)

\* a later bar closes through the outer bound of z
ClosedThrough(z, cs) ==
    \E i \in z.pivot_idx..(Len(cs) - 1) :
        \/ z.type = "resistance" /\ At(cs, i).close > z.zone_high
        \/ z.type = "support" /\ At(cs, i).close < z.zone_low

\* C1: every zone in the list returned by detect_zones has
\* zone_low < zone_high and status "active".
C1_OutputZonesValid ==
    pc = "zones" =>
        \A k \in 1..Len(zones) :
            zones[k].zone_low < zones[k].zone_high /\ zones[k].status = "active"

\* detect_zones returned zones of both kinds, one of them merged from two pivots
C1_Witness ==
    /\ pc = "zones"
    /\ \E k \in 1..Len(zones) : zones[k].type = "support"
    /\ \E k \in 1..Len(zones) : zones[k].type = "resistance"
    /\ \E k \in 1..Len(zones) : zones[k].strength >= 2

\* C2: no zone returned by detect_zones, merged or not, has a bar at index
\* >= pivot_idx that closes above zone_high (resistance) or below zone_low
\* (support).
C2_NoBrokenZoneInOutput ==
    pc = "zones" =>
        \A k \in 1..Len(zones) : ~ClosedThrough(zones[k], candles)

\* a candidate of the series was closed through by a later bar, and the
\* output holds a zone merged from two pivots
C2_Witness ==
    /\ pc = "zones"
    /\ \E k \in 1..Len(zones) : zones[k].strength >= 2
    /\ \E k \in 1..Len(_find_pivots(candles)) :
         LET z == _init_zone_from_pivot(_find_pivots(candles)[k], candles) IN
         z # None /\ ClosedThrough(z, candles)

\* bar i is a strict 5-bar fractal high / low of the series
FractalHigh(cs, i) ==
    /\ 2 <= i /\ i <= Len(cs) - 3
    /\ \A d \in {-2, -1, 1, 2} : At(cs, i).high > At(cs, i + d).high

FractalLow(cs, i) ==
    /\ 2 <= i /\ i <= Len(cs) - 3
    /\ \A d \in {-2, -1, 1, 2} : At(cs, i).low < At(cs, i + d).low

Reported(ps, i, kind) == \E k \in 1..Len(ps) : ps[k].idx = i /\ ps[k].type = kind

\* C7: _find_pivots reports a "high" pivot at i exactly when 2 <= i <= n-3 and
\* bar i's high is strictly above the highs of bars i-2, i-1, i+1, i+2, a "low"
\* pivot exactly when its low is strictly below their lows; the result is in
\* non-decreasing index order and reports each (index, kind) once.
C7_PivotsAreStrictFractals ==
    pc = "pivots" =>
        /\ \A k \in 1..Len(pivots) :
             /\ pivots[k].type \in {"high", "low"}
             /\ pivots[k].idx \in 0..(NBars - 1)
             /\ pivots[k].candle = At(candles, pivots[k].idx)
        /\ \A i \in 0..(NBars - 1) :
             /\ Reported(pivots, i, "high") <=> FractalHigh(candles, i)
             /\ Reported(pivots, i, "low") <=> FractalLow(candles, i)
        /\ \A k \in 1..(Len(pivots) - 1) : pivots[k].idx <= pivots[k + 1].idx
        /\ \A j, k \in 1..Len(pivots) :
             (pivots[j].idx = pivots[k].idx /\ pivots[j].type = pivots[k].type) => j = k

\* one index reported as both kinds, and another bar ruled out only by a
\* neighbour with an equal high
C7_Witness ==
    /\ pc = "pivots"
    /\ \E i \in 0..(NBars - 1) :
         Reported(pivots, i, "high") /\ Reported(pivots, i, "low")
    /\ \E i \in 2..(NBars - 3) :
         /\ ~Reported(pivots, i, "high")
         /\ \A d \in {-2, -1, 1, 2} : At(candles, i).high >= At(candles, i + d).high

-----------------------------------------------------------------------------
(* The merge run: a zone list is built zone by zone and handed to            *)
(* _merge_zones; the result is merged once more, and the zones of each kind  *)
(* are merged on their own.                                                  *)

MaxZones == 3

\* Bounds in ticks of 0.005: [100, 102], [102.005, 102.5], [102.3, 103], [150, 150.5]
MergeBounds ==
    { <<20000, 20400>>, <<20401, 20500>>, <<20460, 20600>>, <<30000, 30100>> }

\* origin_time, pivot_idx and strength a zone enters the list with
MergeOrigins ==
    { [origin_time |-> 1000, pivot_idx |-> 5, strength |-> 1],
      [origin_time |-> 1180, pivot_idx |-> 2, strength |-> 2],
      [origin_time |-> 1180, pivot_idx |-> 5, strength |-> 1] }

MergeInputs ==
    { [ Zone(t, b[1], b[2], o.origin_time, o.pivot_idx) EXCEPT !.strength = o.strength ] :
        t \in {"support", "resistance"}, b \in MergeBounds, o \in MergeOrigins }

OfKind(zs, kind) == SelectSeq(zs, LAMBDA z : z.type = kind)

InitMerge ==
    /\ pc = "input"
    /\ DetectIdle
    /\ MergeIdle
    /\ StepIdle
    /\ SelectIdle
    /\ BotIdle

AppendZone ==
    /\ pc = "input"
    /\ Len(mz_in) < MaxZones
    /\ \E z \in MergeInputs : mz_in' = Append(mz_in, z)
    /\ UNCHANGED <<step_vars, pc, mz_given, obj_pos, mz_out, mz_again, mz_by_kind,
                   detect_vars, select_vars, bot_vars>>

\* `out = _merge_zones(zones)`: the call returns a list of some of the
\* caller's Zone objects and has written the merges into those objects, so the
\* caller's list is left holding the widened bases next to the absorbed zones.
CallMergeZones ==
    /\ pc = "input"
    /\ mz_given' = mz_in
    /\ mz_out' = _merge_zones(mz_in)
    /\ mz_in' = LeftBehind(mz_in)
    /\ obj_pos' = ReturnedPlaces(mz_in)
    /\ pc' = "merged"
    /\ UNCHANGED <<step_vars, mz_again, mz_by_kind, detect_vars, select_vars, bot_vars>>

\* `again = _merge_zones(out)`: the second call works on the objects of `out`,
\* which are objects of the caller's first list too.
CallMergeZonesAgain ==
    /\ pc = "merged"
    /\ mz_again' = _merge_zones(mz_out)
    /\ mz_out' = LeftBehind(mz_out)
    /\ mz_in' = WriteBack(mz_in, obj_pos, LeftBehind(mz_out))
    /\ pc' = "remerged"
    /\ UNCHANGED <<step_vars, mz_given, obj_pos, mz_by_kind, detect_vars, select_vars, bot_vars>>

\* _merge_zones called on the resistance zones and on the support zones of the
\* list as it was given, each call on fresh Zone objects of its own: nothing
\* the first call wrote is seen, and nothing is written to the objects of
\* mz_in or mz_out.
CallMergeZonesByKind ==
    /\ pc = "merged"
    /\ mz_by_kind' = [resistance |-> _merge_zones(OfKind(mz_given, "resistance")),
                      support    |-> _merge_zones(OfKind(mz_given, "support"))]
    /\ pc' = "split"
    /\ UNCHANGED <<step_vars, mz_in, mz_given, obj_pos, mz_out, mz_again,
                   detect_vars, select_vars, bot_vars>>

NextMerge ==
    AppendZone \/ CallMergeZones \/ CallMergeZonesAgain \/ CallMergeZonesByKind

SpecMerge == InitMerge /\ [][NextMerge]_vars

-----------------------------------------------------------------------------
(* Properties of the merge run *)

\* C3: when _merge_zones merges two same-kind zones, in either list order,
\* the zone left in the result has the smaller origin_time, the smaller
\* zone_low, the larger zone_high, the summed strength and the smaller
\* pivot_idx of the two.
C3_MergedZoneIsUnionOfBoth ==
    ( /\ pc = "merged"
      /\ Len(mz_given) = 2
      /\ mz_given[1].type = mz_given[2].type
      /\ (overlap(mz_given[1], mz_given[2]) \/ close_enough(mz_given[1], mz_given[2])) )
    => /\ Len(mz_out) = 1
       /\ mz_out[1].type = mz_given[1].type
       /\ mz_out[1].origin_time = Min2(mz_given[1].origin_time, mz_given[2].origin_time)
       /\ mz_out[1].zone_low = Min2(mz_given[1].zone_low, mz_given[2].zone_low)
       /\ mz_out[1].zone_high = Max2(mz_given[1].zone_high, mz_given[2].zone_high)
       /\ mz_out[1].strength = mz_given[1].strength + mz_given[2].strength
       /\ mz_out[1].pivot_idx = Min2(mz_given[1].pivot_idx, mz_given[2].pivot_idx)

\* two same-kind zones of the list overlap or lie within the threshold
Mergeable(z1, z2) ==
    /\ z1.type = z2.type
    /\ \/ (z1.zone_low <= z2.zone_high /\ z2.zone_low <= z1.zone_high)
       \/ gap(z1, z2) * 2 * ThresholdDen
             < (z1.zone_high - z1.zone_low + z2.zone_high - z2.zone_low) * ThresholdNum

\* C4: _merge_zones applied to its own output returns the same list (same
\* zones, order and fields), and no two same-kind zones of the output overlap
\* or lie within the proximity threshold.
C4_MergeIdempotent ==
    pc = "remerged" =>
        /\ mz_again = mz_out
        /\ \A j, k \in 1..Len(mz_out) : j # k => ~Mergeable(mz_out[j], mz_out[k])

\* three zones came down to one, and the first pass alone left two
C4_Witness ==
    /\ pc = "remerged"
    /\ Len(mz_given) = 3
    /\ Len(MergePass(mz_given).zones) = 2
    /\ Len(mz_out) = 1

\* C10: in _merge_zones only zones of one kind merge and no kind changes: the
\* support zones of the output are the output for the support zones of the
\* input alone, and likewise for resistance.
C10_MergePerKind ==
    pc = "split" =>
        /\ OfKind(mz_out, "support") = mz_by_kind.support
        /\ OfKind(mz_out, "resistance") = mz_by_kind.resistance
        /\ Len(OfKind(mz_out, "support")) + Len(OfKind(mz_out, "resistance")) = Len(mz_out)

\* a resistance zone sits between two support zones that merge, and its
\* range overlaps theirs
C10_Witness ==
    /\ pc = "split"
    /\ Len(mz_given) = 3
    /\ mz_given[1].type = "support"
    /\ mz_given[2].type = "resistance"
    /\ mz_given[3].type = "support"
    /\ overlap(mz_given[1], mz_given[2])
    /\ Len(mz_out) = 2
    /\ mz_out[1].strength = mz_given[1].strength + mz_given[3].strength

-----------------------------------------------------------------------------
(* The selection run: a pool of zones is built zone by zone and handed to    *)
(* get_nearest_zones with a price and two caps.                              *)

MaxPool == 4

PriceChoices == { 50 }

\* <<max_resistance, max_support>>: the defaults, a tighter pair and zero
CapChoices == { << DefaultMaxResistance, DefaultMaxSupport >>, << 1, 2 >>, << 0, 0 >> }

PoolZones ==
    { Zone("resistance", b[1], b[2], 1000, 2) :
        b \in { <<52, 53>>, <<55, 56>>, <<60, 61>>, <<70, 71>>,
                <<52, 54>>, <<50, 52>>, <<48, 56>>, <<45, 50>> } }
    \cup
    { Zone("support", b[1], b[2], 1000, 2) :
        b \in { <<44, 46>>, <<40, 42>>, <<43, 46>>, <<45, 50>>, <<49, 51>> } }

InitSelect ==
    /\ pc = "pool"
    /\ DetectIdle
    /\ MergeIdle
    /\ StepIdle
    /\ BotIdle
    /\ pool = <<>>
    /\ nearest = NoRecord
    /\ current_price \in PriceChoices
    /\ \E caps \in CapChoices : max_resistance = caps[1] /\ max_support = caps[2]

AppendPoolZone ==
    /\ pc = "pool"
    /\ Len(pool) < MaxPool
    /\ \E z \in PoolZones : pool' = Append(pool, z)
    /\ UNCHANGED <<step_vars, pc, current_price, max_resistance, max_support, nearest,
                   detect_vars, merge_vars, bot_vars>>

CallGetNearestZones ==
    /\ pc = "pool"
    /\ nearest' = get_nearest_zones(pool, current_price, max_resistance, max_support)
    /\ pc' = "selected"
    /\ UNCHANGED <<step_vars, pool, current_price, max_resistance, max_support,
                   detect_vars, merge_vars, bot_vars>>

NextSelect == AppendPoolZone \/ CallGetNearestZones

SpecSelect == InitSelect /\ [][NextSelect]_vars

-----------------------------------------------------------------------------
(* Properties of the selection run *)

Count(lst, z) == Cardinality({ k \in 1..Len(lst) : lst[k] = z })
Elems(lst) == { lst[k] : k \in 1..Len(lst) }

\* nearness of a zone on its side of the price: smaller is nearer
NearKey(z, side) == IF side = "resistance" THEN z.zone_low ELSE 0 - z.zone_high

\* `out` is made of min(cap, k) of the k candidates `cand`, nearest first, and
\* a candidate left out is no nearer than any one taken
NearestOf(out, cand, cap, side) ==
    /\ Len(out) = Min2(cap, Len(cand))
    /\ \A k \in 1..(Len(out) - 1) : NearKey(out[k], side) <= NearKey(out[k + 1], side)
    /\ \A z \in Elems(out) : Count(out, z) <= Count(cand, z)
    /\ \A z \in Elems(cand) :
         Count(out, z) < Count(cand, z)
            => \A k \in 1..Len(out) : NearKey(out[k], side) <= NearKey(z, side)

\* C5: the resistance list of get_nearest_zones is the first
\* min(max_resistance, k) of the k resistance candidates in ascending zone_low
\* order, the support list the first min(max_support, m) of the m support
\* candidates in descending zone_high order.
C5_NearestFirstWithinCaps ==
    pc = "selected" =>
        /\ NearestOf(nearest.resistance,
                     SelectSeq(pool, LAMBDA z : IsResistanceCandidate(z, current_price)),
                     max_resistance, "resistance")
        /\ NearestOf(nearest.support,
                     SelectSeq(pool, LAMBDA z : IsSupportCandidate(z, current_price)),
                     max_support, "support")

\* four resistance candidates with four different lows, farthest first in the
\* pool, cut to the default cap of three
C5_Witness ==
    /\ pc = "selected"
    /\ max_resistance = 3
    /\ Len(pool) = 4
    /\ \A k \in 1..4 : IsResistanceCandidate(pool[k], current_price)
    /\ \A k \in 1..3 : pool[k].zone_low > pool[k + 1].zone_low
    /\ Len(nearest.resistance) = 3
    /\ nearest.resistance[1] = pool[4]

\* C6: a resistance zone is a resistance candidate iff zone_low >= price or
\* zone_low < price < zone_high; a support zone is a support candidate iff
\* zone_high <= price or zone_low < price < zone_high.  (Read off the result
\* when the caps cut nothing.)
C6_CandidateIffAtOrBeyondPrice ==
    (pc = "selected" /\ Len(pool) <= max_resistance /\ Len(pool) <= max_support) =>
        \A k \in 1..Len(pool) :
            /\ pool[k].type = "resistance" =>
                 ( pool[k] \in Elems(nearest.resistance)
                   <=> \/ pool[k].zone_low >= current_price
                       \/ pool[k].zone_low < current_price /\ current_price < pool[k].zone_high )
            /\ pool[k].type = "support" =>
                 ( pool[k] \in Elems(nearest.support)
                   <=> \/ pool[k].zone_high <= current_price
                       \/ pool[k].zone_low < current_price /\ current_price < pool[k].zone_high )

-----------------------------------------------------------------------------
(* The chat handler: bars of every timeframe are fetched, zones detected per *)
(* timeframe, pooled, the nearest selected and each labelled with its        *)
(* timeframe.                                                                *)

\* a bar list with the shapes' prices and ascending open times
Series(shapes) ==
    [ k \in 1..Len(shapes) |->
        [open_time |-> OpenTimeAt(k - 1),
         open |-> shapes[k].open, high |-> shapes[k].high,
         low |-> shapes[k].low, close |-> shapes[k].close] ]

\* what fetch_candles can hand back for one timeframe
EmptyList == Fetched(<<>>)
ShortList == Fetched(Series(<< BarT, BarO, BarT >>))
ListA == Fetched(Series(<< BarT, BarT, BarO, BarT, BarT, BarO, BarT, BarT >>))
ListB == Fetched(Series(<< BarY, BarY, BarX, BarY, BarT, BarO, BarT, BarY >>))

FetchResults == { NoCandles, EmptyList, ShortList, ListA, ListB }

\* what fetch_all_timeframes hands back to a handler, as the results for
\* 1h, 4h and 12h: the exchange may answer differently for another symbol and
\* from one fetch to the next
AnswerRows ==
    { << NoCandles, NoCandles, NoCandles >>,
      << ListA,     ListA,     ListA     >>,
      << ListB,     NoCandles, EmptyList >>,
      << NoCandles, ListA,     ShortList >>,
      << EmptyList, ListB,     ListA     >>,
      << ShortList, ListA,     ListB     >>,
      << ListA,     ListB,     NoCandles >>,
      << ListB,     ListA,     ListA     >> }

Answers == { [ tf \in TFs |-> row[TFIndex(tf)] ] : row \in AnswerRows }

HandlerPrices == { 5, 8, 12 }

\* the two messages being handled at once
HandlerOrder == << "A", "B" >>
Handlers == { HandlerOrder[k] : k \in 1..Len(HandlerOrder) }

\* the callers of detect_zones_multi_tf: each handler, and the direct call
DirectCall == Len(HandlerOrder) + 1
CallerOf(h) == CHOOSE k \in 1..Len(HandlerOrder) : HandlerOrder[k] = h

\* The Zone objects of the call made by caller c: every call builds objects
\* of its own, so no object of one call has the id() of an object of another.
OwnObjects(c, zbt) ==
    [ tf \in DOMAIN zbt |->
        [ k \in 1..Len(zbt[tf]) |->
            [ zbt[tf][k] EXCEPT !.id = DirectCall * (@ - 1) + c ] ] ]

\* The n-th Zone object made by copying: the fields of z, and an identity
\* that no call built and no other copy has.
Copied(z, n) == [z EXCEPT !.id = 0 - n]

\* the locals of a handler suspended at the await of line 114: the timeframe
\* it was asked for and the price get_current_price gave it
Started(tf, price) ==
    [ at |-> "await_114", timeframe |-> tf, current_price |-> price,
      candles_by_tf |-> <<>>, zones_by_tf |-> <<>>, all_zones |-> <<>>,
      nearest |-> NoRecord, labels |-> NoRecord ]

\* a handler that has returned: its locals are gone
Returned ==
    [ at |-> "returned", timeframe |-> "", current_price |-> 0,
      candles_by_tf |-> <<>>, zones_by_tf |-> <<>>, all_zones |-> <<>>,
      nearest |-> NoRecord, labels |-> NoRecord ]

\* Either bars are in hand for direct calls of detect_zones and
\* detect_zones_multi_tf, or two handlers wait at line 114, each with its own
\* timeframe and price and nothing fetched yet.
InitBot ==
    /\ DetectIdle
    /\ MergeIdle
    /\ StepIdle
    /\ SelectIdle
    /\ zones_by_tf = <<>>
    /\ labels = NoRecord
    /\ \/ /\ pc = "fetched"
          /\ candles_by_tf \in [TFs -> FetchResults]
          /\ handlers = <<>>
       \/ /\ pc = "handling"
          /\ candles_by_tf = <<>>
          /\ handlers \in [Handlers -> { Started(tf, price) :
                                           tf \in TFs, price \in HandlerPrices }]

\* detect_zones called on the bar list of one timeframe
CallDetectZonesOnFetched ==
    /\ pc = "fetched"
    /\ \E tf \in TFs :
         /\ candles_by_tf[tf].fetched
         /\ candles' = candles_by_tf[tf].bars
         /\ zones' = detect_zones(candles_by_tf[tf].bars)
    /\ pc' = "zones"
    /\ UNCHANGED <<step_vars, pivots, merge_vars, select_vars, bot_vars>>

\* detect_zones_multi_tf called on whatever was fetched
CallDetectZonesMultiTf ==
    /\ pc = "fetched"
    /\ zones_by_tf' = OwnObjects(DirectCall, detect_zones_multi_tf(candles_by_tf))
    /\ pc' = "detected"
    /\ UNCHANGED <<step_vars, candles_by_tf, handlers, labels, detect_vars, merge_vars,
                   select_vars>>

\* what a step of handler h leaves alone
HandlerFrame ==
    UNCHANGED <<pc, candles_by_tf, zones_by_tf, labels, detect_vars, merge_vars,
                select_vars, step_vars>>

\* analyze_handler resumed after the await of line 114: its own fetch, with
\* whatever the exchange answers now, and the check of the main timeframe's
\* bars, up to the next await (119 or 125)
FetchAndCheck(h) ==
    /\ pc = "handling"
    /\ handlers[h].at = "await_114"
    /\ \E answer \in Answers :
         handlers' = [handlers EXCEPT
             ![h].candles_by_tf = answer,
             ![h].at = IF ~Truthy(answer[handlers[h].timeframe])
                         THEN "await_119" ELSE "await_125"]
    /\ HandlerFrame

\* resumed after the await of line 125: detection on every timeframe, the
\* pool, the selection, up to the await of line 139
DetectAndSelect(h) ==
    /\ pc = "handling"
    /\ handlers[h].at = "await_125"
    /\ LET zbt == OwnObjects(CallerOf(h), detect_zones_multi_tf(handlers[h].candles_by_tf))
           all_zones == AllZonesFrom(zbt, 1)
       IN handlers' = [handlers EXCEPT
              ![h].zones_by_tf = zbt,
              ![h].all_zones = all_zones,
              ![h].nearest = get_nearest_zones(all_zones, handlers[h].current_price,
                                               DefaultMaxResistance, DefaultMaxSupport),
              ![h].at = "await_139"]
    /\ HandlerFrame

\* resumed after the await of line 139, generate_chart returns: the message
\* lines with the label of every selected zone, up to the await of line 197
ChartAndLabels(h) ==
    /\ pc = "handling"
    /\ handlers[h].at = "await_139"
    /\ handlers' = [handlers EXCEPT
           ![h].labels = LabelsOf(handlers[h].nearest, handlers[h].zones_by_tf),
           ![h].at = "await_197"]
    /\ HandlerFrame

\* resumed after the await of line 139, generate_chart raises: the error is
\* logged and reported (await of line 151); no label is looked up
ChartFails(h) ==
    /\ pc = "handling"
    /\ handlers[h].at = "await_139"
    /\ handlers' = [handlers EXCEPT ![h].at = "await_151"]
    /\ HandlerFrame

\* resumed after `await status_msg.delete()`: the photo is sent (line 200)
SendPhoto(h) ==
    /\ pc = "handling"
    /\ handlers[h].at = "await_197"
    /\ handlers' = [handlers EXCEPT ![h].at = "await_200"]
    /\ HandlerFrame

\* resumed after its last await (the error report of line 119 or 151, or the
\* photo of line 200) the handler returns
Return(h) ==
    /\ pc = "handling"
    /\ handlers[h].at \in {"await_119", "await_151", "await_200"}
    /\ handlers' = [handlers EXCEPT ![h] = Returned]
    /\ HandlerFrame

\* the awaits after which a handler holds its labels
Labelled == {"await_197", "await_200"}

\* _get_zone_tf asked about the zones a handler selected after each was
\* copied by value, one new object per copy
LabelCopiedZones ==
    /\ pc = "handling"
    /\ \E h \in Handlers :
         /\ handlers[h].at \in Labelled
         /\ nearest' = [ resistance |-> [ k \in 1..Len(handlers[h].nearest.resistance) |->
                                            Copied(handlers[h].nearest.resistance[k], k) ],
                         support    |-> [ k \in 1..Len(handlers[h].nearest.support) |->
                                            Copied(handlers[h].nearest.support[k],
                                                   Len(handlers[h].nearest.resistance) + k) ] ]
         /\ zones_by_tf' = handlers[h].zones_by_tf
         /\ labels' = LabelsOf(nearest', handlers[h].zones_by_tf)
    /\ pc' = "relabelled"
    /\ UNCHANGED <<step_vars, candles_by_tf, handlers, pool, current_price,
                   max_resistance, max_support, detect_vars, merge_vars>>

\* the event loop runs one handler at a time, from one await to the next
AnalyzeHandler ==
    \E h \in Handlers :
        \/ FetchAndCheck(h)
        \/ DetectAndSelect(h)
        \/ ChartAndLabels(h)
        \/ ChartFails(h)
        \/ SendPhoto(h)
        \/ Return(h)

NextBot ==
    \/ CallDetectZonesOnFetched
    \/ CallDetectZonesMultiTf
    \/ AnalyzeHandler
    \/ LabelCopiedZones

SpecBot == InitBot /\ [][NextBot]_vars

-----------------------------------------------------------------------------
(* Properties of the handler *)

\* the keys of zbt are those of the fetch cbt, and a timeframe without bars,
\* or with fewer than 5, has no zones
KeysKeptShortEmpty(zbt, cbt) ==
    /\ DOMAIN zbt = DOMAIN cbt
    /\ \A tf \in DOMAIN cbt :
         ( \/ ~cbt[tf].fetched
           \/ Len(cbt[tf].bars) < 5 )
         => zbt[tf] = <<>>

\* the awaits a handler reaches with zones_by_tf bound
Detected == {"await_139", "await_151", "await_197", "await_200"}

\* C8: detect_zones returns the empty list for an empty bar list and for
\* every list of fewer than 5 bars, and detect_zones_multi_tf returns a
\* mapping with exactly the input keys that maps every timeframe whose bar
\* list is missing or empty (or shorter than 5 bars) to the empty list.
C8_ShortInputGivesEmptyOutput ==
    /\ (pc = "zones" /\ Len(candles) < 5) => zones = <<>>
    /\ pc = "detected" => KeysKeptShortEmpty(zones_by_tf, candles_by_tf)
    /\ pc = "handling" =>
         \A h \in Handlers :
             handlers[h].at \in Detected =>
                 KeysKeptShortEmpty(handlers[h].zones_by_tf, handlers[h].candles_by_tf)

\* one timeframe missing, one empty, one too short
C8_Witness ==
    /\ pc = "detected"
    /\ \E tf \in TFs : ~candles_by_tf[tf].fetched
    /\ \E tf \in TFs : candles_by_tf[tf].fetched /\ candles_by_tf[tf].bars = <<>>
    /\ \E tf \in TFs : Len(candles_by_tf[tf].bars) \in 1..4

\* every label of lab is the timeframe that produced the zone it stands for
LabelsAreOrigins(shown, lab) ==
    /\ \A k \in 1..Len(shown.resistance) :
         /\ lab.resistance[k] # "?"
         /\ lab.resistance[k] = shown.resistance[k].made_from
    /\ \A k \in 1..Len(shown.support) :
         /\ lab.support[k] # "?"
         /\ lab.support[k] = shown.support[k].made_from

\* C9: the timeframe label reported for every zone of the selection is the
\* timeframe whose bars produced the zone, and never "?", whether the zone
\* object reached the lookup by reference or as a copy.
C9_LabelIsOriginatingTimeframe ==
    /\ pc = "handling" =>
         \A h \in Handlers :
             handlers[h].at \in Labelled =>
                 LabelsAreOrigins(handlers[h].nearest, handlers[h].labels)
    /\ pc = "relabelled" => LabelsAreOrigins(nearest, labels)

\* by reference, as the handlers pass them, every label is the originating
\* timeframe, also while another handler holds zones of its own
LabelsByReference ==
    pc = "handling" =>
        \A h \in Handlers :
            handlers[h].at \in Labelled =>
                LabelsAreOrigins(handlers[h].nearest, handlers[h].labels)

\* a handler that reported a chart error looked up no label
NoLabelsAfterChartError ==
    \A h \in Handlers :
        (pc = "handling" /\ handlers[h].at = "await_151") => handlers[h].labels = NoRecord

\* two handlers asked for the same timeframe: one fetched bars and went on,
\* the other's fetch of that timeframe failed
FetchesDiffer ==
    /\ pc = "handling"
    /\ handlers["A"].timeframe = handlers["B"].timeframe
    /\ handlers["A"].at = "await_125"
    /\ handlers["B"].at = "await_119"
    /\ handlers["A"].current_price # handlers["B"].current_price

\* both handlers hold zones at once, one labelled, and one of its labels is
\* not the first timeframe
TwoHandlersInterleaved ==
    /\ pc = "handling"
    /\ handlers["A"].at = "await_139"
    /\ handlers["B"].at = "await_197"
    /\ \E k \in 1..Len(handlers["B"].labels.resistance) :
         handlers["B"].labels.resistance[k] # TFOrder[1]

-----
(* Single calls of _init_zone_from_pivot and _refine_zone: a short window of *)
(* bars is built, a pivot record is made for one of its bars, and the two    *)
(* functions are called on it.                                               *)

MaxWindow == 5

\* open, high, low, close in ticks
WinP == [open |-> 103, high |-> 107, low |-> 99,  close |-> 101]  \* wicks on both sides
WinA == [open |-> 104, high |-> 106, low |-> 100, close |-> 105]  \* body inside (103, 107)
WinB == [open |-> 102, high |-> 104, low |-> 99,  close |-> 100]  \* closes inside (99, 101)
WinD == [open |-> 105, high |-> 107, low |-> 104, close |-> 107]  \* closes on its high
WinE == [open |-> 106, high |-> 110, low |-> 105, close |-> 109]  \* closes above 107
WinF == [open |-> 100, high |-> 101, low |-> 97,  close |-> 98]   \* closes below 99
WinG == [open |-> 101, high |-> 103, low |-> 99,  close |-> 99]   \* closes on its low

WindowShapes == { WinP, WinA, WinB, WinD, WinE, WinF, WinG }

\* the dict _find_pivots builds for bar i: {"idx": i, "type": kind, "candle": candles[i]}
PivotAt(cs, i, kind) == [idx |-> i, type |-> kind, candle |-> At(cs, i)]

InitCalls ==
    /\ pc = "window"
    /\ DetectIdle
    /\ MergeIdle
    /\ StepIdle
    /\ SelectIdle
    /\ BotIdle

AppendWindowBar ==
    /\ pc = "window"
    /\ Len(candles) < MaxWindow
    /\ \E b \in WindowShapes :
         candles' = Append(candles,
                           [open_time |-> OpenTimeAt(Len(candles)),
                            open |-> b.open, high |-> b.high,
                            low |-> b.low, close |-> b.close])
    /\ UNCHANGED <<pc, pivots, zones, merge_vars, select_vars, bot_vars, step_vars>>

CallInitZoneFromPivot ==
    /\ pc = "window"
    /\ \E i \in 0..(Len(candles) - 1), kind \in {"high", "low"} :
         /\ init_pivot' = PivotAt(candles, i, kind)
         /\ init_zone' = _init_zone_from_pivot(PivotAt(candles, i, kind), candles)
    /\ pc' = "initialised"
    /\ UNCHANGED <<detect_vars, merge_vars, select_vars, bot_vars, refined_zone, loop_vars>>

CallRefineZone ==
    /\ pc = "initialised"
    /\ init_zone # None
    /\ refined_zone' = _refine_zone(init_zone, candles)
    /\ pc' = "refined"
    /\ UNCHANGED <<detect_vars, merge_vars, select_vars, bot_vars,
                   init_pivot, init_zone, loop_vars>>

NextCalls == AppendWindowBar \/ CallInitZoneFromPivot \/ CallRefineZone

SpecCalls == InitCalls /\ [][NextCalls]_vars

-----------------------------------------------------------------------------
(* Properties of the single calls *)

SetMax(S) == CHOOSE x \in S : \A y \in S : y <= x
SetMin(S) == CHOOSE x \in S : \A y \in S : x <= y

\* the in-range bars among i-2, i-1, i+1, i+2
InRangeNeighbours(cs, i) == { j \in {i - 2, i - 1, i + 1, i + 2} : 0 <= j /\ j < Len(cs) }

BodyTop(c) == IF c.open >= c.close THEN c.open ELSE c.close
BodyBottom(c) == IF c.open <= c.close THEN c.open ELSE c.close

\* body-tops of the in-range neighbours that lie strictly below the pivot's high
TopsBelowHigh(cs, i) ==
    { BodyTop(At(cs, j)) : j \in { n \in InRangeNeighbours(cs, i) :
                                     BodyTop(At(cs, n)) < At(cs, i).high } }

\* body-bottoms of the in-range neighbours that lie strictly above the pivot's low
BottomsAboveLow(cs, i) ==
    { BodyBottom(At(cs, j)) : j \in { n \in InRangeNeighbours(cs, i) :
                                        BodyBottom(At(cs, n)) > At(cs, i).low } }

\* C11: for a pivot-high at bar i, _init_zone_from_pivot returns nothing when
\* the bar's body-top is >= its high; otherwise a resistance zone with
\* zone_high = the bar's high and zone_low = the largest of the bar's body-top
\* and the body-tops of the in-range neighbours i-2, i-1, i+1, i+2 that are
\* strictly below that high, so zone_low is never below the body-top and never
\* reaches zone_high (open 103, close 101, high 107 without a neighbour
\* body-top above 103 gives [103, 107]).  The mirror holds for a pivot-low.
C11_InitZoneBounds ==
    pc = "initialised" =>
        LET i == init_pivot.idx
            c == init_pivot.candle
        IN IF init_pivot.type = "high"
             THEN IF BodyTop(c) >= c.high
                    THEN init_zone = None
                    ELSE /\ init_zone # None
                         /\ init_zone.type = "resistance"
                         /\ init_zone.zone_high = c.high
                         /\ init_zone.zone_low =
                              SetMax({BodyTop(c)} \cup TopsBelowHigh(candles, i))
                         /\ BodyTop(c) <= init_zone.zone_low
                         /\ init_zone.zone_low < init_zone.zone_high
                         /\ ( /\ c.open = 103 /\ c.close = 101 /\ c.high = 107
                              /\ \A t \in TopsBelowHigh(candles, i) : t <= 103 )
                            => init_zone.zone_low = 103 /\ init_zone.zone_high = 107
             ELSE IF BodyBottom(c) <= c.low
                    THEN init_zone = None
                    ELSE /\ init_zone # None
                         /\ init_zone.type = "support"
                         /\ init_zone.zone_low = c.low
                         /\ init_zone.zone_high =
                              SetMin({BodyBottom(c)} \cup BottomsAboveLow(candles, i))
                         /\ init_zone.zone_high <= BodyBottom(c)
                         /\ init_zone.zone_low < init_zone.zone_high

\* a pivot-high in the middle of a five-bar window whose inner bound was raised
\* to the body-top of a bar after it, while another neighbour's body-top is at
\* or above the pivot's high and was left out
C11_Witness ==
    /\ pc = "initialised"
    /\ init_pivot.type = "high"
    /\ init_pivot.idx = 2
    /\ Len(candles) = 5
    /\ init_zone # None
    /\ init_zone.zone_low > BodyTop(init_pivot.candle)
    /\ \A j \in {0, 1} : BodyTop(At(candles, j)) # init_zone.zone_low
    /\ \E j \in InRangeNeighbours(candles, 2) :
         BodyTop(At(candles, j)) >= init_pivot.candle.high

\* C12: _refine_zone changes nothing but the inner bound.  The outer bound,
\* kind, origin_time, pivot_idx, strength and status are those of the zone it
\* was given, and the inner bound lies between the original inner bound and
\* the outer bound without reaching it (resistance: old zone_low <= new
\* zone_low < zone_high; support: zone_low < new zone_high <= old zone_high).
C12_RefineMovesOnlyInnerBound ==
    pc = "refined" =>
        /\ refined_zone.type = init_zone.type
        /\ refined_zone.origin_time = init_zone.origin_time
        /\ refined_zone.pivot_idx = init_zone.pivot_idx
        /\ refined_zone.strength = init_zone.strength
        /\ refined_zone.status = init_zone.status
        /\ IF init_zone.type = "resistance"
             THEN /\ refined_zone.zone_high = init_zone.zone_high
                  /\ init_zone.zone_low <= refined_zone.zone_low
                  /\ refined_zone.zone_low < refined_zone.zone_high
             ELSE /\ refined_zone.zone_low = init_zone.zone_low
                  /\ refined_zone.zone_high <= init_zone.zone_high
                  /\ refined_zone.zone_low < refined_zone.zone_high

\* a support zone whose inner bound was lowered by a close after its pivot
C12_Witness ==
    /\ pc = "refined"
    /\ init_zone.type = "support"
    /\ refined_zone.zone_high < init_zone.zone_high
    /\ refined_zone.zone_low < refined_zone.zone_high

\* index of the first bar from `from` on that makes a new extreme beyond the
\* zone's outer bound or closes beyond it; Len(cs) when there is none
FirstBeyond(z, cs, from) ==
    LET beyond == { j \in from..(Len(cs) - 1) :
                      IF z.type = "resistance"
                        THEN At(cs, j).high > z.zone_high \/ At(cs, j).close > z.zone_high
                        ELSE At(cs, j).low < z.zone_low \/ At(cs, j).close < z.zone_low }
    IN IF beyond = {} THEN Len(cs) ELSE SetMin(beyond)

\* closes of the bars from the pivot up to, not including, the stopping bar
ClosesWalked(z, cs) ==
    { At(cs, j).close : j \in z.pivot_idx..(FirstBeyond(z, cs, z.pivot_idx) - 1) }

\* C13: for a resistance zone that passed the breakout check, _refine_zone sets
\* zone_low to the maximum of the original zone_low and the closes of the bars
\* from pivot_idx up to, not including, the first bar whose high or close is
\* strictly above zone_high (to the end when there is none), provided that
\* maximum is strictly below zone_high; otherwise zone_low keeps its value.
\* The mirror holds for support with the minimum close and the first bar whose
\* low or close is strictly below zone_low.
C13_RefinedBoundIsExtremeClose ==
    (pc = "refined" /\ ~_is_broken(init_zone, candles)) =>
        IF init_zone.type = "resistance"
          THEN LET m == SetMax({init_zone.zone_low} \cup ClosesWalked(init_zone, candles))
               IN refined_zone.zone_low =
                    IF m < init_zone.zone_high THEN m ELSE init_zone.zone_low
          ELSE LET m == SetMin({init_zone.zone_high} \cup ClosesWalked(init_zone, candles))
               IN refined_zone.zone_high =
                    IF m > init_zone.zone_low THEN m ELSE init_zone.zone_high

\* a support zone that passed the breakout check, whose walk was stopped by a
\* lower low before the end of the window, with a close strictly inside the
\* zone at or after the stopping bar that the refined bound does not follow
C13_Witness ==
    /\ pc = "refined"
    /\ init_zone.type = "support"
    /\ ~_is_broken(init_zone, candles)
    /\ FirstBeyond(init_zone, candles, init_zone.pivot_idx) < Len(candles)
    /\ \E j \in FirstBeyond(init_zone, candles, init_zone.pivot_idx)..(Len(candles) - 1) :
         /\ At(candles, j).close > init_zone.zone_low
         /\ At(candles, j).close < refined_zone.zone_high

-----------------------------------------------------------------------------
(* detect_zones step by step: the pivot loop runs one call at a time, so the *)
(* order of the calls made for each candidate is part of the state.          *)

\* where the pivot loop goes after `zone = _init_zone_from_pivot(...)`:
\* `if zone is None: continue`
AfterInit(z) == IF z = None THEN "loop" ELSE "check"

\* variant: a candidate is refined whatever the breakout check said
AfterCheck_ignores_result(broken) == "refine"

\* where the pivot loop goes after `_is_broken(zone, candles)`:
\* `if _is_broken(zone, candles): continue`
AfterCheck(broken) == IF broken THEN "loop" ELSE "refine"

LogEntry(pos, op, z, broken) == [pos |-> pos, op |-> op, zone |-> z, broken |-> broken]

MaxStepBars == 7

BarR == [open |-> 7, high |-> 9, low |-> 6, close |-> 8]     \* closes inside (7, 9)

StepShapes == { BarO, BarT, BarY, BarR }

InitSteps ==
    /\ pc = "bars"
    /\ DetectIdle
    /\ MergeIdle
    /\ StepIdle
    /\ SelectIdle
    /\ BotIdle

AppendStepBar ==
    /\ pc = "bars"
    /\ Len(candles) < MaxStepBars
    /\ \E b \in StepShapes :
         candles' = Append(candles,
                           [open_time |-> OpenTimeAt(Len(candles)),
                            open |-> b.open, high |-> b.high,
                            low |-> b.low, close |-> b.close])
    /\ UNCHANGED <<pc, pivots, zones, merge_vars, select_vars, bot_vars, step_vars>>

\* `if not candles or len(candles) < 5: return []`, else the pivots are found
\* and the loop starts with an empty zone list
EnterDetectZones ==
    /\ pc = "bars"
    /\ IF Len(candles) < 5
         THEN /\ zones' = <<>>
              /\ pc' = "done"
              /\ UNCHANGED <<pivots, pivot_pos>>
         ELSE /\ pivots' = _find_pivots(candles)
              /\ pivot_pos' = 1
              /\ pc' = "loop"
              /\ UNCHANGED zones
    /\ UNCHANGED <<candles, merge_vars, select_vars, bot_vars, call_vars,
                   steps, loop_zones, merged_flag, pass_lens>>

\* zone = _init_zone_from_pivot(pivot, candles) for the next pivot
StepInit ==
    /\ pc = "loop"
    /\ pivot_pos <= Len(pivots)
    /\ LET z == _init_zone_from_pivot(pivots[pivot_pos], candles) IN
         /\ init_pivot' = pivots[pivot_pos]
         /\ init_zone' = z
         /\ steps' = Append(steps, LogEntry(pivot_pos, "init", z, FALSE))
         /\ pc' = AfterInit(z)
         /\ pivot_pos' = IF AfterInit(z) = "loop" THEN pivot_pos + 1 ELSE pivot_pos
    /\ UNCHANGED <<detect_vars, merge_vars, select_vars, bot_vars, refined_zone,
                   loop_zones, merged_flag, pass_lens>>

\* _is_broken(zone, candles) on the zone as it was initialised
StepCheck ==
    /\ pc = "check"
    /\ LET broken == _is_broken(init_zone, candles) IN
         /\ steps' = Append(steps, LogEntry(pivot_pos, "check", init_zone, broken))
         /\ pc' = AfterCheck(broken)
         /\ pivot_pos' = IF AfterCheck(broken) = "loop" THEN pivot_pos + 1 ELSE pivot_pos
    /\ UNCHANGED <<detect_vars, merge_vars, select_vars, bot_vars, call_vars,
                   loop_zones, merged_flag, pass_lens>>

\* zone = _refine_zone(zone, candles); zones.append(zone)
StepRefine ==
    /\ pc = "refine"
    /\ refined_zone' = _refine_zone(init_zone, candles)
    /\ mz_in' = Append(mz_in, _refine_zone(init_zone, candles))
    /\ steps' = Append(steps, LogEntry(pivot_pos, "refine", init_zone, FALSE))
    /\ pivot_pos' = pivot_pos + 1
    /\ pc' = "loop"
    /\ UNCHANGED <<detect_vars, mz_given, obj_pos, mz_out, mz_again, mz_by_kind,
                   select_vars, bot_vars,
                   init_pivot, init_zone, loop_zones, merged_flag, pass_lens>>

\* zones = _merge_zones(zones) once the pivot loop is over: the name is bound
\* to the returned list, and the merges are written into the candidates
StepMerge ==
    /\ pc = "loop"
    /\ pivot_pos > Len(pivots)
    /\ mz_given' = mz_in
    /\ mz_out' = _merge_zones(mz_in)
    /\ mz_in' = LeftBehind(mz_in)
    /\ obj_pos' = ReturnedPlaces(mz_in)
    /\ pc' = "merged"
    /\ UNCHANGED <<detect_vars, mz_again, mz_by_kind, select_vars, bot_vars, step_vars>>

\* the final validity pass and the return
StepReturn ==
    /\ pc = "merged"
    /\ zones' = SelectSeq(mz_out, IsValidZone)
    /\ pc' = "done"
    /\ UNCHANGED <<candles, pivots, merge_vars, select_vars, bot_vars, step_vars>>

NextSteps ==
    \/ AppendStepBar
    \/ EnterDetectZones
    \/ StepInit
    \/ StepCheck
    \/ StepRefine
    \/ StepMerge
    \/ StepReturn

SpecSteps == InitSteps /\ [][NextSteps]_vars

-----------------------------------------------------------------------------
(* Properties of the stepwise run *)

\* the candidate zones as the pivot loop appended them: the list handed to
\* _merge_zones, before that call wrote into its objects
Candidates == IF pc \in {"merged", "done"} THEN mz_given ELSE mz_in

\* positions in the log of the entries (pos, op)
LogIdx(pos, op) == { k \in 1..Len(steps) : steps[k].pos = pos /\ steps[k].op = op }

\* the stepwise run returns what detect_zones returns
StepsAgreeWithDetectZones == pc = "done" => zones = detect_zones(candles)

\* C14: in detect_zones each candidate goes through initialise, breakout check,
\* refine in that order.  The check sees the zone with the bounds it was
\* initialised with, before any refinement of it; a candidate the check reports
\* as broken is never refined and is not in the list handed to _merge_zones.
C14_CheckBeforeRefine ==
    pc \in {"loop", "check", "refine", "merged", "done"} =>
        /\ \A p \in 1..Len(pivots) :
             LET z0 == _init_zone_from_pivot(pivots[p], candles) IN
             /\ Cardinality(LogIdx(p, "init")) <= 1
             /\ Cardinality(LogIdx(p, "check")) <= 1
             /\ Cardinality(LogIdx(p, "refine")) <= 1
             /\ \A c \in LogIdx(p, "check") :
                  /\ steps[c].zone = z0
                  /\ steps[c].broken = _is_broken(z0, candles)
                  /\ \E i \in LogIdx(p, "init") : i < c
                  /\ \A r \in LogIdx(p, "refine") : c < r
             /\ \A r \in LogIdx(p, "refine") :
                  /\ \E c \in LogIdx(p, "check") : c < r /\ ~steps[c].broken
                  /\ z0 # None /\ ~_is_broken(z0, candles)
             /\ (z0 # None /\ _is_broken(z0, candles)) =>
                  /\ LogIdx(p, "refine") = {}
                  /\ \A k \in 1..Len(Candidates) :
                       ~( /\ Candidates[k].pivot_idx = pivots[p].idx
                          /\ Candidates[k].origin_time = z0.origin_time
                          /\ Candidates[k].type = z0.type )
        /\ Len(Candidates) = Cardinality({ k \in 1..Len(steps) : steps[k].op = "refine" })

\* a run that reached the merge after one candidate was reported broken and
\* skipped, and another passed the check and was then refined to a narrower
\* zone than the one the check saw
C14_Witness ==
    /\ pc = "merged"
    /\ \E c \in 1..Len(steps) : steps[c].op = "check" /\ steps[c].broken
    /\ \E c, r \in 1..Len(steps) :
         /\ steps[c].op = "check" /\ steps[r].op = "refine"
         /\ steps[c].pos = steps[r].pos
         /\ \E k \in 1..Len(Candidates) :
              /\ Candidates[k].pivot_idx = steps[c].zone.pivot_idx
              /\ Candidates[k].type = steps[c].zone.type
              /\ Candidates[k] # steps[c].zone

-----------------------------------------------------------------------------
(* _merge_zones pass by pass: the while loop runs one pass at a time.        *)

MaxLoopZones == 3

MaxPasses == 6

\* the resistance zones of MergeInputs with the oldest origin, a younger
\* resistance zone and a support zone, both over the lowest of them
LoopInputs ==
    { z \in MergeInputs :
        \/ z.type = "resistance" /\ z.origin_time = 1000
        \/ z.type = "resistance" /\ z.zone_low = 20000 /\ z.strength = 2
        \/ z.type = "support" /\ z.zone_low = 20000 /\ z.origin_time = 1000 }

AppendLoopZone ==
    /\ pc = "input"
    /\ Len(mz_in) < MaxLoopZones
    /\ \E z \in LoopInputs : mz_in' = Append(mz_in, z)
    /\ UNCHANGED <<pc, mz_given, obj_pos, mz_out, mz_again, mz_by_kind,
                   detect_vars, select_vars, bot_vars, step_vars>>

\* `if not zones: return zones`, else `merged = True` and the loop is entered
EnterMergeZones ==
    /\ pc = "input"
    /\ IF mz_in = <<>>
         THEN /\ mz_out' = mz_in
              /\ pc' = "returned"
              /\ UNCHANGED <<loop_zones, merged_flag>>
         ELSE /\ loop_zones' = mz_in
              /\ merged_flag' = TRUE
              /\ pc' = "while"
              /\ UNCHANGED mz_out
    /\ mz_given' = mz_in
    /\ obj_pos' = OwnPlaces(mz_in)
    /\ UNCHANGED <<mz_in, mz_again, mz_by_kind, detect_vars, select_vars, bot_vars,
                   call_vars, pivot_pos, steps, pass_lens>>

\* one pass of `while merged:`, from `merged = False` to `zones = result`;
\* the merges of the pass are written into the objects of the caller's list
RunPass ==
    /\ pc = "while"
    /\ merged_flag
    /\ Len(pass_lens) < MaxPasses
    /\ loop_zones' = MergePass(loop_zones).zones
    /\ merged_flag' = MergePass(loop_zones).merged
    /\ mz_in' = WriteBack(mz_in, obj_pos, MergePass(loop_zones).objects)
    /\ obj_pos' = KeptPlaces(obj_pos, MergePass(loop_zones).kept)
    /\ pass_lens' = Append(pass_lens, Len(loop_zones))
    /\ UNCHANGED <<pc, mz_given, mz_out, mz_again, mz_by_kind, detect_vars, select_vars,
                   bot_vars, call_vars, pivot_pos, steps>>

\* the loop condition is false: `return zones`
LeaveLoop ==
    /\ pc = "while"
    /\ ~merged_flag
    /\ mz_out' = loop_zones
    /\ pc' = "returned"
    /\ UNCHANGED <<mz_in, mz_given, obj_pos, mz_again, mz_by_kind, detect_vars,
                   select_vars, bot_vars, step_vars>>

NextMergeLoop == AppendLoopZone \/ EnterMergeZones \/ RunPass \/ LeaveLoop

\* a call that has entered the loop keeps executing: the function runs to its
\* return without waiting for anything
SpecMergeLoop ==
    /\ InitMerge
    /\ [][NextMergeLoop]_vars
    /\ WF_vars(RunPass)
    /\ WF_vars(LeaveLoop)

-----------------------------------------------------------------------------
(* Properties of the pass-by-pass run *)

NPasses == Len(pass_lens)

\* every pass that was followed by another one handed it a strictly shorter
\* list; the list after the last pass is shorter exactly when that pass merged
PassesShrink ==
    /\ \A k \in 1..(NPasses - 1) : pass_lens[k + 1] < pass_lens[k]
    /\ NPasses >= 1 =>
         /\ merged_flag => Len(loop_zones) < pass_lens[NPasses]
         /\ ~merged_flag => Len(loop_zones) = pass_lens[NPasses]

\* the pass-by-pass run returns what _merge_zones returns
PassesAgreeWithMergeZones ==
    pc = "returned" =>
        /\ mz_out = _merge_zones(mz_given)
        /\ mz_in = LeftBehind(mz_given)
        /\ obj_pos = ReturnedPlaces(mz_given)

\* C15: _merge_zones terminates on every finite list.  A pass that merges
\* hands a strictly shorter list to the next pass, the loop ends with the first
\* pass that merges nothing, and at most len(zones) passes are executed.
C15_MergeTerminates ==
    /\ [](pc \in {"while", "returned"} =>
            /\ PassesShrink
            /\ NPasses <= Len(mz_in)
            /\ (pc = "returned" /\ mz_in # <<>>) =>
                 /\ NPasses >= 1
                 /\ ~merged_flag
                 /\ Len(mz_out) = pass_lens[NPasses])
    /\ (pc = "while") ~> (pc = "returned")

\* a call on three zones that returned after three passes: two that merged
\* and the one that found nothing left to merge
C15_Witness ==
    /\ pc = "returned"
    /\ Len(mz_in) = 3
    /\ NPasses = 3
    /\ Len(mz_out) = 1

-----------------------------------------------------------------------------
(* Strength through the pipeline *)

RECURSIVE SumStrength(_)
SumStrength(zs) == IF zs = <<>> THEN 0 ELSE Head(zs).strength + SumStrength(Tail(zs))

\* the pivots of cs whose candidate zone was initialised and passed the
\* breakout check, as positions in the pivot list
SurvivingPivots(cs) ==
    { k \in 1..Len(_find_pivots(cs)) :
        LET z == _init_zone_from_pivot(_find_pivots(cs)[k], cs) IN
        z # None /\ ~_is_broken(z, cs) }

\* zones of one kind stand in the list in non-decreasing origin_time order
OldestFirst(zs) ==
    \A i, j \in 1..Len(zs) :
        (i < j /\ zs[i].type = zs[j].type) => zs[i].origin_time <= zs[j].origin_time

\* _merge_zones on a list in which, within each kind, older zones come first
\* keeps the sum of strength
MergeKeepsStrengthWhenOldestFirst ==
    (pc = "merged" /\ OldestFirst(mz_given)) => SumStrength(mz_out) = SumStrength(mz_given)

\* C16: for bars in strictly ascending open_time order, the strengths of the
\* zones detect_zones returns add up to the number of pivots whose candidate
\* was initialised and passed the breakout check: merging and the final
\* validity pass neither lose an absorbed pivot nor count one twice.
C16_StrengthConserved ==
    pc = "zones" =>
        ( (\A i \in 0..(NBars - 2) : At(candles, i).open_time < At(candles, i + 1).open_time)
          => SumStrength(zones) = Cardinality(SurvivingPivots(candles)) )

\* detect_zones returned a zone that absorbed another, from a series in which
\* a further pivot gave no surviving candidate
C16_Witness ==
    /\ pc = "zones"
    /\ \E k \in 1..Len(zones) : zones[k].strength >= 2
    /\ Cardinality(SurvivingPivots(candles)) >= 2
    /\ Cardinality(SurvivingPivots(candles)) < Len(_find_pivots(candles))

====
